---- MODULE Spec2Model ----
(***************************************************************************)
(* Model of plot-latency.py: a single-pass script that loads a CSV table   *)
(* of latency samples, slices it by the requested pids and draws one       *)
(* subplot per pid, either as a raster (delay against timestamp) or as an  *)
(* empirical CDF (cumulative sum of the normalised frequency of each       *)
(* delay value).                                                           *)
(*                                                                         *)
(* Conventions.  argparse stores an option declared with nargs=1 as None   *)
(* when it is absent and as a one-element list when it is present; the     *)
(* model writes None as <<>> and the list [v] as <<v>>, so that the        *)
(* script's truth tests ("if args.xlim:") become "opt # <<>>".  Titles      *)
(* are sequences of characters, str(p) being computed digit by digit;      *)
(* labels and paths are atoms.  float64 values are modelled bit for bit    *)
(* (positive, normal range) as [e |-> exponent, m |-> significand], the    *)
(* significand being the 53 bits written as five digits in radix 2^13,     *)
(* most significant first, the first digit being the leading 1: the value  *)
(* is (m read as an integer) * 2^(e-52).  What the script prints (lines    *)
(* 52 and 54) changes nothing it later reads and is left out.              *)
(***************************************************************************)
EXTENDS Integers, Sequences, FiniteSets

(***************************************************************************)
(* Natural numbers as digit strings in radix 2^13, most significant first  *)
(***************************************************************************)

\* Bits per digit: a float64 significand is 1 + 4 * 13 = 53 bits.
DigitBits == 13

\* Digits of a significand after the leading 1.
FracDigits == 4

Radix == 2^DigitBits

Zeros(k) == [i \in 1..k |-> 0]

\* xs + ys + c for digit strings of equal length: <<carry out, digits>>.
RECURSIVE AddDigits(_, _, _)
AddDigits(xs, ys, c) ==
    IF xs = <<>> THEN <<c, <<>>>>
    ELSE LET n == Len(xs)
             s == xs[n] + ys[n] + c
             r == AddDigits(SubSeq(xs, 1, n - 1), SubSeq(ys, 1, n - 1), s \div Radix)
         IN  <<r[1], Append(r[2], s % Radix)>>

\* xs / 2^d, exactly: the string grows by d \div 13 + 1 digits, which hold the
\* bits shifted out.
ShiftRight(xs, d) ==
    LET a == d \div DigitBits
        b == d % DigitBits
        z == Zeros(a) \o xs \o <<0>>
    IN  [i \in 1..Len(z) |->
            (IF i = 1 THEN 0 ELSE (z[i - 1] % 2^b) * 2^(DigitBits - b))
            + z[i] \div 2^b]

(***************************************************************************)
(* float64 arithmetic, as numpy performs it for lines 85 and 87            *)
(***************************************************************************)

\* The next k digits of the expansion of r/n in radix 2^13 (0 <= r < n), and
\* the remainder left after them: schoolbook long division.
RECURSIVE DivDigits(_, _, _)
DivDigits(r, n, k) ==
    IF k = 0 THEN <<<<>>, r>>
    ELSE LET rest == DivDigits((r * Radix) % n, n, k - 1)
         IN  <<<<(r * Radix) \div n>> \o rest[1], rest[2]>>

\* Round-to-nearest-even of a significand: kept holds the 53 bits, up says
\* whether the discarded part forces a round up.
RoundMant(e, kept, up) ==
    IF ~up THEN [e |-> e, m |-> kept]
    ELSE LET r == AddDigits(kept, Zeros(Len(kept)), 1)[2]
         IN  IF r[1] = 2 THEN [e |-> e + 1, m |-> <<1>> \o Zeros(FracDigits)]
             ELSE [e |-> e, m |-> r]

\* f / n for integers f, n > 0, correctly rounded (IEEE-754 division of the
\* two integers converted to float64; both are small, so the conversion is exact).
RECURSIVE FDivNorm(_, _, _)
FDivNorm(f, n, e) ==
    IF f >= 2 * n THEN FDivNorm(f, 2 * n, e + 1)
    ELSE IF f < n THEN FDivNorm(2 * f, n, e - 1)
    ELSE LET q    == DivDigits(f - n, n, FracDigits)
             kept == <<1>> \o q[1]
             rem  == q[2]
             up   == \/ 2 * rem > n
                     \/ 2 * rem = n /\ kept[FracDigits + 1] % 2 = 1
         IN  RoundMant(e, kept, up)

FDiv(f, n) == FDivNorm(f, n, 0)

\* a + b for positive float64 a, b, correctly rounded.
FAdd(a, b) ==
    LET hi    == IF a.e >= b.e THEN a ELSE b
        lo    == IF a.e >= b.e THEN b ELSE a
        y     == ShiftRight(lo.m, hi.e - lo.e)
        x     == hi.m \o Zeros(Len(y) - Len(hi.m))
        s     == AddDigits(x, y, 0)[2]
        carry == IF s[1] >= 2 THEN 1 ELSE 0
        full  == IF carry = 1 THEN ShiftRight(s, 1) ELSE s
        kept  == SubSeq(full, 1, FracDigits + 1)
        tail  == SubSeq(full, FracDigits + 2, Len(full))
        half  == Radix \div 2
        more  == \/ tail[1] % half # 0
                 \/ \E i \in 2..Len(tail) : tail[i] # 0
        up    == /\ tail[1] >= half
                 /\ more \/ kept[FracDigits + 1] % 2 = 1
    IN  RoundMant(hi.e + carry, kept, up)

(***************************************************************************)
(* Values of the script                                                    *)
(***************************************************************************)

\* Most pids on the command line, and most rows in the input table, of a run
\* of the whole script.
MaxPids == 5
MaxRows == 1

\* Most pids and most rows of a run that exercises the slicing and the CDF.
MaxCdfPids == 2
MaxCdfRows == 6

\* The pids that occur on the command line and in the table.
Pids == {7, 12}

\* An option declared with nargs=1: None, or the one-element list.
None == <<>>
Opt(S) == {None} \cup {<<v>> : v \in S}

\* The errors pd.read_csv raises for a missing and for a malformed file.
LoadErrors == {"FileNotFoundError", "ParserError"}

Ints(S, k) == {i \in S : i <= k}

\* Delay columns of length L that move in steps of 0 or 1, upwards from 1 or
\* downwards to 1: every way of grouping L rows into runs of equal delays,
\* in sorted and in reverse order.
DelayColumns(L) ==
    LET Up(U) == [k \in 1..L |-> 1 + Cardinality(Ints(U, k))]
    IN  UNION {{Up(U), [k \in 1..L |-> Up(U)[L + 1 - k]]} : U \in SUBSET (2..L)}

\* Pid columns of length L: one pid throughout, or two pids alternating.
PidColumns(L) == {[k \in 1..L |-> IF k % 2 = 1 THEN q1 ELSE q2] : q1 \in Pids, q2 \in Pids}

\* The tables of one to maxLen rows the runs are given: row k carries the
\* timestamp k (the index column), an integer pid and an integer delay.  (A
\* table without any row is left out: pandas then infers no integer columns.)
Tables(maxLen) ==
    UNION {{[k \in 1..L |-> [ts |-> k, pid |-> pcol[k], delay |-> dcol[k]]] :
                pcol \in PidColumns(L), dcol \in DelayColumns(L)} : L \in 1..maxLen}

\* What the file named on the command line holds: a table, or what makes
\* pd.read_csv raise.
Files(maxLen) ==
    {[err |-> e, rows |-> <<>>] : e \in LoadErrors}
        \cup {[err |-> "", rows |-> t] : t \in Tables(maxLen)}

\* The non-empty pid lists of at most maxLen pids (nargs='+').
PidLists(maxLen) == UNION {[1..n -> Pids] : n \in 1..maxLen}

VARIABLES
    args,       \* the parsed command line (line 40)
    file,       \* what args.file[0] holds on disk
    data,       \* the loaded table (line 44)
    pid_data,   \* pid -> its delay series (lines 49-54)
    p,          \* the module-level loop variable p of both for loops
    it,         \* how many pids the running for loop has taken
    fig,        \* the figure: created, hspace, suptitle
    ax,         \* what plt.subplots returned as its second value
    axes,       \* the state of each created axes, by subplot number
    row, col,   \* lines 118-119
    calls,      \* the drawing, saving and showing calls made so far, in order
    saved,      \* the files written by fig.savefig
    err,        \* the exception that ended the run, or ""
    pc          \* where the script is

vars == <<args, file, data, pid_data, p, it, fig, ax, axes, row, col, calls, saved, err, pc>>

(***************************************************************************)
(* The pandas and matplotlib calls the script makes                        *)
(***************************************************************************)

\* A selection that forgets the comparison with q and keeps every row.
LocAnyPid(tbl, q) == tbl

\* data.loc[data["pid"] == q]: the rows whose pid column equals q, in table order.
Loc(tbl, q) == SelectSeq(tbl, LAMBDA r : r.pid = q)

\* data.loc[data["pid"] == q, "delay"]: the delay column of those rows, each
\* value under its index (the timestamp).
DelaySeries(tbl, q) ==
    LET rs == Loc(tbl, q)
    IN  [k \in 1..Len(rs) |-> <<rs[k].ts, rs[k].delay>>]

\* Group keys left in descending order.
RECURSIVE SortedDescending(_)
SortedDescending(S) ==
    IF S = {} THEN <<>>
    ELSE LET most == CHOOSE x \in S : \A y \in S : y <= x
         IN  <<most>> \o SortedDescending(S \ {most})

\* The elements of a finite set of integers in ascending order (groupby sorts
\* the group keys).
RECURSIVE Sorted(_)
Sorted(S) ==
    IF S = {} THEN <<>>
    ELSE LET least == CHOOSE x \in S : \A y \in S : x <= y
         IN  <<least>> \o Sorted(S \ {least})

\* .groupby('delay')['delay'].agg('count') ... .rename(...): one row per
\* distinct delay, in ascending order of delay, with the number of rows of the
\* group as its frequency.
Frequency(rs) ==
    LET keys == Sorted({rs[k].delay : k \in 1..Len(rs)})
    IN  [j \in 1..Len(keys) |->
            [delay     |-> keys[j],
             frequency |-> Cardinality({k \in 1..Len(rs) : rs[k].delay = keys[j]})]]

\* sum(stats_df['frequency']): Python's built-in sum over the integer column.
RECURSIVE SumFrequency(_)
SumFrequency(fr) ==
    IF fr = <<>> THEN 0 ELSE Head(fr).frequency + SumFrequency(Tail(fr))

\* stats_df['frequency'] / sum(...): the float64 quotient of every frequency.
\* An empty column has no element to divide, so a zero total divides nothing.
Pdf(fr) ==
    LET total == SumFrequency(fr)
    IN  [j \in 1..Len(fr) |-> FDiv(fr[j].frequency, total)]

\* The pdf column plotted in place of its cumulative sum.
CumSumSkipped(xs) == xs

\* .cumsum(): the running float64 sum, left to right; the first element is
\* the first summand itself.
RECURSIVE CumSum(_)
CumSum(xs) ==
    IF Len(xs) <= 1 THEN xs
    ELSE LET init == CumSum(SubSeq(xs, 1, Len(xs) - 1))
         IN  Append(init, FAdd(init[Len(init)], xs[Len(xs)]))

\* The curve plot_cdf draws for pid q: x = delay, y = cdf, one point per row
\* of stats_df (lines 81-90).
CdfPoints(tbl, q) ==
    LET fr  == Frequency(Loc(tbl, q))
        cdf == CumSum(Pdf(fr))
    IN  [j \in 1..Len(fr) |-> <<fr[j].delay, cdf[j]>>]

\* str(n) for an integer n.
DigitChars == <<"0", "1", "2", "3", "4", "5", "6", "7", "8", "9">>

RECURSIVE Str(_)
Str(n) ==
    IF n < 0 THEN <<"-">> \o Str(-n)
    ELSE IF n < 10 THEN <<DigitChars[n + 1]>>
    ELSE Str(n \div 10) \o <<DigitChars[(n % 10) + 1]>>

\* plt.subplots(nrows, ncols) with the default squeeze=True: a single Axes for
\* a 1x1 grid, a 1-D array when one dimension is 1, a 2-D array otherwise.
PltSubplots(nrows, ncols) ==
    [kind  |-> IF nrows = 1 /\ ncols = 1 THEN "Axes"
               ELSE IF nrows = 1 \/ ncols = 1 THEN "array1"
               ELSE "array2",
     nrows |-> nrows,
     ncols |-> ncols]

\* The 2x2 grid chosen for four pids and more.
LayoutGridFromFour(n) == IF n >= 4 THEN PltSubplots(2, 2) ELSE PltSubplots(n, 1)

\* Lines 59-62.
Layout(n) == IF n = 4 THEN PltSubplots(2, 2) ELSE PltSubplots(n, 1)

\* A freshly created axes.
NewAxes ==
    [lines |-> <<>>, xlabel |-> None, ylabel |-> None, title |-> None,
     xlim |-> None, ylim |-> None, yticklabels |-> "default"]

\* Subplot numbers are row-major, from 1, as matplotlib counts them.
Cell(r, c, ncols) == r * ncols + c + 1

Picked(id) == [id |-> id, err |-> ""]
Raised(e)  == [id |-> 0, err |-> e]

\* ax[r][c] on what plt.subplots returned (line 129).
Item2(axv, r, c) ==
    IF axv.kind = "array2"
    THEN IF r < axv.nrows /\ c < axv.ncols
         THEN Picked(Cell(r, c, axv.ncols)) ELSE Raised("IndexError")
    ELSE IF axv.kind = "array1"
    THEN Raised(IF r < axv.nrows * axv.ncols THEN "TypeError" ELSE "IndexError")
    ELSE Raised("TypeError")

\* ax[r] on what plt.subplots returned (line 135); a row of a 2-D array is no
\* axes to draw on.
Item1(axv, r) ==
    IF axv.kind = "array1"
    THEN IF r < axv.nrows * axv.ncols THEN Picked(r + 1) ELSE Raised("IndexError")
    ELSE IF axv.kind = "array2"
    THEN Raised(IF r < axv.nrows THEN "AttributeError" ELSE "IndexError")
    ELSE Raised("TypeError")

\* ax itself (line 138): an axes only when plt.subplots returned a single one.
Item0(axv) == IF axv.kind = "Axes" THEN Picked(1) ELSE Raised("AttributeError")

\* Lines 128-139: the axes the loop picks for the pid it has reached.
PickAxes(n, axv, r, c) ==
    IF n = 4 THEN Item2(axv, r, c)
    ELSE IF n > 1 THEN Item1(axv, r)
    ELSE Item0(axv)

\* The grid filled column by column: row advances first.
AdvanceColumnFirst(n, r, c) ==
    IF n = 4
    THEN LET r2 == (r + 1) % 2
         IN  <<r2, IF r2 = 0 THEN c + 1 ELSE c>>
    ELSE <<r + 1, c>>

\* Lines 130-133, 136, 139: col and row after the pick, as <<row, col>>.
Advance(n, r, c) ==
    IF n = 4
    THEN LET c2 == (c + 1) % 2
         IN  <<IF c2 = 0 THEN r + 1 ELSE r, c2>>
    ELSE <<r + 1, c>>

\* Limits applied to the x-axis only.
SetLimsXOnly(a, opts) ==
    [a EXCEPT !.xlim = IF opts.xlim # None THEN <<0, opts.xlim[1]>> ELSE @]

\* Lines 97-100 and 113-116: the limits an axes ends with.
SetLims(a, opts) ==
    [a EXCEPT !.xlim = IF opts.xlim # None THEN <<0, opts.xlim[1]>> ELSE @,
              !.ylim = IF opts.ylim # None THEN <<0, opts.ylim[1]>> ELSE @]

\* plot_cdf(q, a), lines 79-100, on the axes state a.
PlotCdf(opts, tbl, q, a) ==
    SetLims([a EXCEPT !.lines = Append(@, [style |-> "line", points |-> CdfPoints(tbl, q)]),
                      !.xlabel = <<"latency (us)">>,
                      !.yticklabels = "percent"],
            opts)

\* The title built from the p the first loop left behind, the last pid,
\* as it would be if the drawing loop did not rebind the global p.
TitleOfLastPid(opts, gp) ==
    IF opts.subtitle # None THEN opts.subtitle[1]
    ELSE <<"p", "i", "d", "=">> \o Str(opts.pids[Len(opts.pids)])

\* The title plot_plot sets (lines 109-112); gp is the global p it reads.
Title(opts, gp) ==
    IF opts.subtitle # None THEN opts.subtitle[1]
    ELSE <<"p", "i", "d", "=">> \o Str(gp)

\* plot_plot(a), lines 103-116, on the axes state a; gp is the value of the
\* module-level name p when the function runs, pd the dict pid_data.
PlotPlot(opts, pd, gp, a) ==
    SetLims([a EXCEPT !.lines = Append(@, [style |-> "marker", points |-> pd[gp]]),
                      !.ylabel = <<"latency (us)">>,
                      !.xlabel = <<"Time">>,
                      !.title = <<Title(opts, gp)>>],
            opts)

\* A renderer choice that also looks at --subtitle.
RendererUnlessSubtitle(opts) ==
    IF opts.cdf /\ opts.subtitle = None THEN "plot_cdf" ELSE "plot_plot"

\* Line 122: the function do_plot calls.
Renderer(opts) == IF opts.cdf THEN "plot_cdf" ELSE "plot_plot"

\* do_plot(q, a), lines 121-125.  plot_cdf is handed q; plot_plot is not, and
\* reads the global p.
DoPlot(opts, tbl, pd, gp, q, a) ==
    IF Renderer(opts) = "plot_cdf"
    THEN PlotCdf(opts, tbl, q, a) ELSE PlotPlot(opts, pd, gp, a)

(***************************************************************************)
(* The script, statement by statement                                      *)
(***************************************************************************)

Options(lists) ==
    [cdf      : BOOLEAN,
     title    : Opt({<<"l", "a", "t">>}),
     subtitle : Opt({<<"r", "u", "n">>}),
     xlim     : Opt({40}),
     ylim     : Opt({9}),
     output   : Opt({"out.png"}),
     file     : {<<"in.csv">>},
     pids     : lists]

\* The state once the command line is parsed (line 40), for the given command
\* lines and file contents.  Names not yet bound hold a placeholder.
Start(opts, contents) ==
    /\ args \in opts
    /\ file \in contents
    /\ data = <<>>
    /\ pid_data = <<>>
    /\ p = 0
    /\ it = 0
    /\ fig = [created |-> FALSE, hspace |-> None, suptitle |-> None]
    /\ ax = [kind |-> "none", nrows |-> 0, ncols |-> 0]
    /\ axes = <<>>
    /\ row = 0
    /\ col = 0
    /\ calls = <<>>
    /\ saved = <<>>
    /\ err = ""
    /\ pc = "read"

\* Runs of the whole script: every option, every pid list of up to MaxPids
\* pids, small tables.
Init == Start(Options(PidLists(MaxPids)), Files(MaxRows))

\* Runs on larger tables, with short pid lists and no limits or titles.
InitCdf ==
    Start({o \in Options(PidLists(MaxCdfPids)) :
              /\ o.title = None /\ o.subtitle = None /\ o.output = None
              /\ o.xlim = None /\ o.ylim = None},
          Files(MaxCdfRows))

\* A load that swallows the exception and goes on with an empty table.
ReadResultSwallowed(f) == [err |-> "", rows |-> f.rows]

\* pd.read_csv(args.file[0], index_col=0, parse_dates=True) on what the file
\* holds: the exception it raises, or the table it returns.
ReadResult(f) == [err |-> f.err, rows |-> IF f.err = "" THEN f.rows ELSE <<>>]

\* A script that never writes the figure.
SavesNever(opts) == FALSE

\* Line 143: whether the figure is written.
Saves(opts) == opts.output # None

\* Line 44: the table is loaded, or pd.read_csv raises and the exception,
\* caught nowhere, ends the script.  Lines 49-50 follow a successful load.
ReadCsv ==
    /\ pc = "read"
    /\ LET got == ReadResult(file)
       IN  IF got.err # ""
           THEN /\ err' = got.err
                /\ pc' = "crashed"
                /\ UNCHANGED data
           ELSE /\ data' = got.rows
                /\ pc' = "select"
                /\ UNCHANGED err
    /\ it' = 0
    /\ pid_data' = <<>>
    /\ UNCHANGED <<args, file, p, fig, ax, axes, row, col, calls, saved>>

\* Lines 51-54, one pass of the loop: p is bound to the next pid and its
\* series stored under it.
SelectPid ==
    /\ pc = "select"
    /\ it < Len(args.pids)
    /\ LET q == args.pids[it + 1]
       IN  /\ p' = q
           /\ pid_data' = [k \in DOMAIN pid_data \cup {q} |->
                              IF k = q THEN DelaySeries(data, q) ELSE pid_data[k]]
    /\ it' = it + 1
    /\ pc' = IF it' = Len(args.pids) THEN "subplots" ELSE "select"
    /\ UNCHANGED <<args, file, data, fig, ax, axes, row, col, calls, saved, err>>

\* Lines 59-77 and 118-119: the figure and its axes are created, the spacing
\* and the title set, col and row zeroed.
Subplots ==
    /\ pc = "subplots"
    /\ ax' = Layout(Len(args.pids))
    /\ axes' = [id \in 1..(ax'.nrows * ax'.ncols) |-> NewAxes]
    /\ fig' = [created  |-> TRUE,
               hspace   |-> <<"0.5">>,
               suptitle |-> IF args.title # None THEN <<args.title[1]>> ELSE None]
    /\ row' = 0
    /\ col' = 0
    /\ it' = 0
    /\ pc' = "plot"
    /\ UNCHANGED <<args, file, data, pid_data, p, calls, saved, err>>

\* Lines 127-141, one pass of the loop: p is bound to the next pid, an axes is
\* picked and do_plot draws on it.  A pick outside what plt.subplots returned
\* raises, which ends the script.
PlotPid ==
    /\ pc = "plot"
    /\ it < Len(args.pids)
    /\ p' = args.pids[it + 1]
    /\ LET n    == Len(args.pids)
           pick == PickAxes(n, ax, row, col)
       IN  IF pick.err # ""
           THEN /\ err' = pick.err
                /\ pc' = "crashed"
                /\ UNCHANGED <<it, row, col, axes, calls>>
           ELSE /\ row' = Advance(n, row, col)[1]
                /\ col' = Advance(n, row, col)[2]
                /\ axes' = [axes EXCEPT ![pick.id] =
                               DoPlot(args, data, pid_data, p', p', @)]
                /\ calls' = Append(calls, [fn |-> Renderer(args), ax |-> pick.id])
                /\ it' = it + 1
                /\ pc' = IF it' = n THEN "save" ELSE "plot"
                /\ UNCHANGED err
    /\ UNCHANGED <<args, file, data, pid_data, fig, ax, saved>>

\* Lines 143-144: the figure, as drawn so far, is written when --output is given.
SaveFig ==
    /\ pc = "save"
    /\ IF Saves(args)
       THEN /\ saved' = Append(saved, [path |-> args.output[1], figure |-> axes])
            /\ calls' = Append(calls, [fn |-> "savefig", ax |-> 0])
       ELSE UNCHANGED <<saved, calls>>
    /\ pc' = "show"
    /\ UNCHANGED <<args, file, data, pid_data, p, it, fig, ax, axes, row, col, err>>

\* Line 146.
Show ==
    /\ pc = "show"
    /\ calls' = Append(calls, [fn |-> "show", ax |-> 0])
    /\ pc' = "done"
    /\ UNCHANGED <<args, file, data, pid_data, p, it, fig, ax, axes, row, col, saved, err>>

Next == ReadCsv \/ SelectPid \/ Subplots \/ PlotPid \/ SaveFig \/ Show

Spec == Init /\ [][Next]_vars

SpecCdf == InitCdf /\ [][Next]_vars

(***************************************************************************)
(* Vocabulary of the properties                                            *)
(***************************************************************************)

NPids == Len(args.pids)

\* The calls of plot_cdf and plot_plot made so far, in order: the i-th is the
\* loop's pass for the i-th requested pid.
PlotCalls == SelectSeq(calls, LAMBDA c : c.fn \in {"plot_cdf", "plot_plot"})

\* The indices of the table's rows whose pid is q.
RowsOf(q) == {k \in DOMAIN data : data[k].pid = q}

\* The number of rows of pid q whose delay is at most v.
CountUpTo(q, v) == Cardinality({k \in RowsOf(q) : data[k].delay <= v})

\* Every axes that has been drawn on.
DrawnAxes == {id \in DOMAIN axes : axes[id].lines # <<>>}

\* The drawing loop has run to its end.
DrawingDone == pc \in {"save", "show", "done"}

\* xs * k + c for a small k: <<carry out, digits>>.
RECURSIVE MulDigits(_, _, _)
MulDigits(xs, k, c) ==
    IF xs = <<>> THEN <<c, <<>>>>
    ELSE LET n == Len(xs)
             s == xs[n] * k + c
             r == MulDigits(SubSeq(xs, 1, n - 1), k, s \div Radix)
         IN  <<r[1], Append(r[2], s % Radix)>>

\* xs <= ys for digit strings of equal length.
LeqDigits(xs, ys) ==
    \/ xs = ys
    \/ \E i \in 1..Len(xs) : /\ xs[i] < ys[i]
                             /\ \A j \in 1..(i - 1) : xs[j] = ys[j]

\* a <= b for positive float64 a, b.
FLeq(a, b) == a.e < b.e \/ (a.e = b.e /\ LeqDigits(a.m, b.m))

FLess(a, b) == a # b /\ FLeq(a, b)

\* The float64 1.0.
FOne == [e |-> 0, m |-> <<1>> \o Zeros(FracDigits)]

\* |y - c/n| <= k * 2^-52 for a float64 y = M * 2^(e-52) with -17 <= e: after
\* multiplying by n * 2^(52-e), |M*n - c * 2^52 * 2^-e| <= k * n * 2^-e, in
\* exact integer arithmetic on digit strings.
Near(y, c, n, k) ==
    /\ y.e <= 0
    /\ LET scale == 2^(0 - y.e)
           mn    == MulDigits(y.m, n, 0)
           cs    == MulDigits(<<c>> \o Zeros(FracDigits), scale, 0)
           tol   == k * n * scale
           A     == <<0, mn[1]>> \o mn[2]
           B     == <<0, cs[1]>> \o cs[2]
           T     == Zeros(FracDigits + 1) \o <<tol \div Radix, tol % Radix>>
       IN  /\ LeqDigits(A, AddDigits(B, T, 0)[2])
           /\ LeqDigits(B, AddDigits(A, T, 0)[2])

(***************************************************************************)
(* Properties                                                              *)
(***************************************************************************)

\* C1: in both modes, what is drawn on the subplot of the i-th requested pid q
\* is built from exactly the table's rows whose pid is q.  A raster holds one
\* point <<timestamp, delay>> per such row and no other point; a CDF holds one
\* point per distinct delay of such rows, its height the share of such rows at
\* or below that delay (to within the rounding of the float64 running sum).
\* This holds whatever the order of the requested pids and however often a pid
\* is repeated.
C1_SubplotDataIsPidRows ==
    \A i \in 1..Len(PlotCalls) :
        LET q  == args.pids[i]
            id == PlotCalls[i].ax
        IN  /\ axes[id].lines # <<>>
            /\ \A l \in 1..Len(axes[id].lines) :
                  LET pts == axes[id].lines[l].points
                  IN  IF axes[id].lines[l].style = "marker"
                      THEN /\ Len(pts) = Cardinality(RowsOf(q))
                           /\ {pts[j] : j \in 1..Len(pts)}
                                = {<<data[k].ts, data[k].delay>> : k \in RowsOf(q)}
                      ELSE /\ {pts[j][1] : j \in 1..Len(pts)}
                                = {data[k].delay : k \in RowsOf(q)}
                           /\ Len(pts) = Cardinality({data[k].delay : k \in RowsOf(q)})
                           /\ \A j \in 1..Len(pts) :
                                 Near(pts[j][2], CountUpTo(q, pts[j][1]),
                                      Cardinality(RowsOf(q)), j)

\* C1 witness: a finished run that requested two different pids, in the
\* order opposite to their first rows, the table mixing rows of both.
C1_Witness ==
    /\ pc = "done"
    /\ args.pids = <<12, 7>>
    /\ Cardinality(RowsOf(7)) >= 2
    /\ Cardinality(RowsOf(12)) >= 2
    /\ data[1].pid = 7 /\ data[2].pid = 12

\* The subplot number the layout of C2 gives the i-th of n pids (i from 1).
\* For n = 4 the 0-based position i-1 lands on row (i-1) div 2, column
\* (i-1) mod 2 of the 2x2 grid, whose cells are numbered row by row.
GridCell(i) == 2 * ((i - 1) \div 2) + ((i - 1) % 2) + 1

\* C2: for n = 1 a single axes, used directly; for n = 2 or 3 one column of n
\* axes, the i-th pid on the i-th from the top; for n = 4 a 2x2 grid filled
\* row by row, each cell used exactly once.
C2_LayoutByCount ==
    fig.created =>
        /\ NPids = 1 => /\ ax = [kind |-> "Axes", nrows |-> 1, ncols |-> 1]
                        /\ \A i \in 1..Len(PlotCalls) : PlotCalls[i].ax = 1
        /\ NPids \in {2, 3} =>
              /\ ax = [kind |-> "array1", nrows |-> NPids, ncols |-> 1]
              /\ \A i \in 1..Len(PlotCalls) : PlotCalls[i].ax = i
        /\ NPids = 4 =>
              /\ ax = [kind |-> "array2", nrows |-> 2, ncols |-> 2]
              /\ \A i \in 1..Len(PlotCalls) : PlotCalls[i].ax = GridCell(i)
              /\ DrawingDone =>
                    \A id \in 1..4 :
                        Cardinality({i \in 1..Len(PlotCalls) : PlotCalls[i].ax = id}) = 1
        /\ NPids <= 4 /\ DrawingDone => Len(PlotCalls) = NPids

\* C2 witness: a finished run with four pids.
C2_Witness == pc = "done" /\ NPids = 4 /\ Len(PlotCalls) = 4

\* C9: for every n >= 1, also n > 4, no pick of the loop falls outside the
\* created axes (no run ends in an exception of the loop); for n # 4 the i-th
\* pid is drawn on axes i of one column of n axes, for n = 4 on a cell of the
\* 2x2 grid; no two pids share an axes, and once the loop has ended every
\* created axes has received exactly one pid.
C9_PicksStayInside ==
    /\ err \in LoadErrors \cup {""}
    /\ pc = "crashed" => file.err # ""
    /\ fig.created =>
          /\ NPids # 4 => /\ ax.nrows = NPids /\ ax.ncols = 1
                          /\ \A i \in 1..Len(PlotCalls) : PlotCalls[i].ax = i
          /\ NPids = 4 => /\ ax.nrows = 2 /\ ax.ncols = 2
                          /\ \A i \in 1..Len(PlotCalls) : PlotCalls[i].ax \in 1..4
          /\ DOMAIN axes = 1..NPids
          /\ \A i, j \in 1..Len(PlotCalls) : i # j => PlotCalls[i].ax # PlotCalls[j].ax
          /\ \A id \in DOMAIN axes : Len(axes[id].lines) <= 1
          /\ DrawingDone => \A id \in DOMAIN axes : Len(axes[id].lines) = 1

\* C9 witness: a finished run with more than four pids.
C9_Witness == pc = "done" /\ NPids > 4 /\ Len(PlotCalls) = NPids

\* C4: one run uses one renderer: every pass of the loop calls plot_cdf when
\* --cdf is set and plot_plot when it is not, whatever the other options and
\* the pid; every requested pid is drawn exactly once (one call per pass, one
\* curve per call); no figure mixes curves of the two modes.
C4_OneModePerRun ==
    /\ \A i \in 1..Len(PlotCalls) :
          PlotCalls[i].fn = IF args.cdf THEN "plot_cdf" ELSE "plot_plot"
    /\ \A id \in DOMAIN axes : \A l \in 1..Len(axes[id].lines) :
          axes[id].lines[l].style = IF args.cdf THEN "line" ELSE "marker"
    /\ pc = "plot" => Len(PlotCalls) = it
    /\ DrawingDone =>
          /\ Len(PlotCalls) = NPids
          /\ \A id \in DOMAIN axes : Len(axes[id].lines) = 1

\* C4 witness: a finished --cdf run with several pids, other options given too.
C4_Witness ==
    /\ pc = "done" /\ args.cdf /\ NPids >= 3
    /\ args.subtitle # None /\ args.xlim # None
    /\ Len(PlotCalls) = NPids

\* The curve the i-th pass of the loop drew, and the pid of that pass.
Curve(i) == axes[PlotCalls[i].ax].lines[1].points
PidOf(i) == args.pids[i]

\* The CDF curves to speak of: those of a --cdf run for a pid with a row.
CdfPasses == {i \in 1..Len(PlotCalls) : args.cdf /\ RowsOf(PidOf(i)) # {}}

DistinctDelays(q) == {data[k].delay : k \in RowsOf(q)}

\* C3 as stated: one point per distinct delay of the pid, and the height at
\* delay v is the quotient (rows of the pid with delay <= v) / (rows of the
\* pid), as float64 division yields it.
C3_CdfIsCountRatio ==
    \A i \in CdfPasses :
        /\ Len(Curve(i)) = Cardinality(DistinctDelays(PidOf(i)))
        /\ {Curve(i)[j][1] : j \in 1..Len(Curve(i))} = DistinctDelays(PidOf(i))
        /\ \A j \in 1..Len(Curve(i)) :
              Curve(i)[j][2] = FDiv(CountUpTo(PidOf(i), Curve(i)[j][1]),
                                    Cardinality(RowsOf(PidOf(i))))

\* C3 as amended: one point per distinct delay of the pid, and the height of
\* the j-th point, at delay v, lies within j * 2^-52 of
\* (rows of the pid with delay <= v) / (rows of the pid): it is the float64
\* running sum of j rounded quotients, which need not equal the quotient of
\* the counts.
C3_CdfNearCountRatio ==
    \A i \in CdfPasses :
        /\ Len(Curve(i)) = Cardinality(DistinctDelays(PidOf(i)))
        /\ {Curve(i)[j][1] : j \in 1..Len(Curve(i))} = DistinctDelays(PidOf(i))
        /\ \A j \in 1..Len(Curve(i)) :
              Near(Curve(i)[j][2], CountUpTo(PidOf(i), Curve(i)[j][1]),
                   Cardinality(RowsOf(PidOf(i))), j)

\* C3 witness: a finished --cdf run for a pid with six rows over six distinct
\* delays, the case in which the running sum ends below 1.0.
C3_Witness ==
    /\ pc = "done" /\ args.cdf /\ CdfPasses # {}
    /\ \E i \in CdfPasses :
          /\ Cardinality(RowsOf(PidOf(i))) = 6
          /\ Len(Curve(i)) = 6
          /\ Curve(i)[6][2] # FOne

\* y <= 1 + k * 2^-52 for a float64 y and k < 2^13.
AtMostOnePlus(y, k) ==
    \/ y.e < 0
    \/ y.e = 0 /\ SubSeq(y.m, 1, FracDigits) = <<1>> \o Zeros(FracDigits - 1)
               /\ y.m[FracDigits + 1] <= k

\* The denominator of line 85 for pid q.
Denominator(q) == SumFrequency(Frequency(Loc(data, q)))

\* C10 as stated: the points are in strictly increasing order of delay, the
\* heights strictly increase along it, every height lies in (0, 1], the
\* denominator is not zero and counts the pid's rows, and the last height is
\* exactly 1.
C10_CdfEndsAtOne ==
    \A i \in CdfPasses :
        LET c == Curve(i)
            n == Cardinality(RowsOf(PidOf(i)))
        IN  /\ \A j \in 2..Len(c) : c[j - 1][1] < c[j][1] /\ FLess(c[j - 1][2], c[j][2])
            /\ \A j \in 1..Len(c) : FLeq(FDiv(1, 2 * n), c[j][2]) /\ FLeq(c[j][2], FOne)
            /\ Denominator(PidOf(i)) # 0 /\ Denominator(PidOf(i)) = n
            /\ c[Len(c)][2] = FOne

\* C10 as amended: the points are in strictly increasing order of delay, the
\* heights strictly increase along it, every height is positive and the j-th
\* is at most 1 + j * 2^-52, the denominator is not zero and counts the pid's
\* rows, and the last of k heights lies within k * 2^-52 of 1.
C10_CdfEndsNearOne ==
    \A i \in CdfPasses :
        LET c == Curve(i)
            n == Cardinality(RowsOf(PidOf(i)))
        IN  /\ \A j \in 2..Len(c) : c[j - 1][1] < c[j][1] /\ FLess(c[j - 1][2], c[j][2])
            /\ \A j \in 1..Len(c) : FLeq(FDiv(1, 2 * n), c[j][2]) /\ AtMostOnePlus(c[j][2], j)
            /\ Denominator(PidOf(i)) # 0 /\ Denominator(PidOf(i)) = n
            /\ Near(c[Len(c)][2], n, n, Len(c))

\* C10 witness: a finished --cdf run whose table lists the pid's delays out
\* of order and with a repeated value, so that grouping has to sort and count.
C10_Witness ==
    /\ pc = "done" /\ args.cdf /\ CdfPasses # {}
    /\ \E i \in CdfPasses :
          /\ Len(Curve(i)) >= 3
          /\ Cardinality(RowsOf(PidOf(i))) > Len(Curve(i))
          /\ \E k \in RowsOf(PidOf(i)) : \E k2 \in RowsOf(PidOf(i)) :
                k < k2 /\ data[k].delay > data[k2].delay

\* "pid=" followed by the pid, spelled out for the pids of the model.
PidTitle(q) ==
    IF q = 7 THEN <<"p", "i", "d", "=", "7">> ELSE <<"p", "i", "d", "=", "1", "2">>

\* C5: in raster mode the title of the subplot of every pass is the --subtitle
\* value when one is given and otherwise "pid=" and the pid of that pass, the
\* pid whose rows are the points of that same subplot.
C5_TitleNamesDrawnPid ==
    ~args.cdf =>
        \A i \in 1..Len(PlotCalls) :
            LET a == axes[PlotCalls[i].ax]
            IN  /\ a.title = <<IF args.subtitle # None THEN args.subtitle[1]
                               ELSE PidTitle(PidOf(i))>>
                /\ {Curve(i)[j] : j \in 1..Len(Curve(i))}
                      = {<<data[k].ts, data[k].delay>> : k \in RowsOf(PidOf(i))}

\* C5 witness: a finished raster run without --subtitle whose pid list names
\* two pids, the last differing from the first, one of them with a row.
C5_Witness ==
    /\ pc = "done" /\ ~args.cdf /\ args.subtitle = None
    /\ NPids >= 3 /\ args.pids[1] # args.pids[NPids]
    /\ data # <<>>
    /\ Len(PlotCalls) = NPids

\* C6: a file is written if and only if --output is given; it is written once,
\* after every requested pid has been drawn (the written figure holds every
\* curve) and before the display; and every run that has ended its drawing
\* goes on to the display: until it has shown the figure it can take a step,
\* and it ends with the show call.
C6_SaveThenShow ==
    /\ saved # <<>> =>
          /\ args.output # None
          /\ Len(saved) = 1
          /\ saved[1].path = args.output[1]
          /\ DOMAIN saved[1].figure = 1..NPids
          /\ \A id \in DOMAIN saved[1].figure : Len(saved[1].figure[id].lines) = 1
    /\ pc \in {"show", "done"} => (saved # <<>> <=> args.output # None)
    /\ \A k \in 1..Len(calls) :
          /\ calls[k].fn = "savefig" =>
                /\ k = NPids + 1
                /\ \A j \in 1..(k - 1) : calls[j].fn \in {"plot_cdf", "plot_plot"}
          /\ calls[k].fn = "show" =>
                /\ k = Len(calls)
                /\ k = NPids + (IF args.output # None THEN 2 ELSE 1)
    /\ DrawingDone /\ pc # "done" => ENABLED Next
    /\ pc = "done" => calls # <<>> /\ calls[Len(calls)].fn = "show"

\* C6 witness: a finished run with --output and several pids.
C6_Witness ==
    /\ pc = "done" /\ args.output # None /\ NPids >= 2
    /\ saved # <<>> /\ calls[Len(calls)].fn = "show"

\* C7: with --xlim X every subplot drawn, in either mode, has the x-range
\* [0, X], and with --ylim Y the y-range [0, Y]; without the option the script
\* sets no limits on that axis; once the loop has ended every subplot is drawn.
C7_LimitsOnEverySubplot ==
    /\ \A id \in DrawnAxes :
          /\ axes[id].xlim = IF args.xlim # None THEN <<0, args.xlim[1]>> ELSE None
          /\ axes[id].ylim = IF args.ylim # None THEN <<0, args.ylim[1]>> ELSE None
    /\ \A id \in DOMAIN axes \ DrawnAxes : axes[id].xlim = None /\ axes[id].ylim = None
    /\ DrawingDone => DrawnAxes = DOMAIN axes /\ DrawnAxes # {}

\* C7 witness: a finished run with --xlim but no --ylim and several pids.
C7_Witness ==
    /\ pc = "done" /\ args.xlim # None /\ args.ylim = None /\ NPids >= 2
    /\ DrawnAxes = 1..NPids

\* C8: when pd.read_csv raises, the run ends there with that very exception:
\* no figure, no axes, no slice of the table, no drawing, save or show call,
\* and no file written, with or without --output.
C8_LoadFailureEndsRun ==
    file.err # "" =>
        /\ pc \in {"read", "crashed"}
        /\ pc = "crashed" => err = file.err /\ ~ENABLED Next
        /\ ~fig.created
        /\ axes = <<>>
        /\ pid_data = <<>>
        /\ calls = <<>>
        /\ saved = <<>>

\* C8 witness: a run with --output ended by a malformed file.
C8_Witness ==
    /\ pc = "crashed" /\ err = "ParserError" /\ file.err = "ParserError"
    /\ args.output # None

====
